---- MODULE Spec2Model ----
\* whisper_transcribe.py: a command-line entry point that passes argv[1] to
\* transcribe(), which loads the "base" whisper model, runs inference on the
\* path and returns result["text"]; the entry point prints it.
\*
\* Text is a sequence of characters; standard output and standard error are
\* character/token streams.  The whisper library is an oracle fixed per run
\* (lib: what model.transcribe answers for each path); whether load_model
\* succeeds is decided at each call.  Python sequences are 0-based, TLA+
\* sequences 1-based: sys.argv[k] is argv[k + 1].
EXTENDS Integers, Sequences, FiniteSets, TLC

VARIABLES
    argv,           \* sys.argv
    lib,            \* the library's answer of model.transcribe, per path
    pc,             \* position of the main program
    audio_file,     \* main: audio_file
    transcription,  \* main: transcription
    stdout,         \* what was written to standard output
    stderr,         \* what was written to standard error
    exitCode,       \* the process' exit status, Running until it ends
    tpc,            \* position of the transcribe() frame
    audio_path,     \* transcribe: audio_path
    model,          \* transcribe: model
    result,         \* transcribe: result, <<>> while unbound
    retval,         \* value transcribe() returned
    exc,            \* exception in flight, "none" when there is none
    events,         \* history: the library and I/O calls made, in order
    callStart,      \* history: index in events where the current call began
    calls           \* history: one record per finished call of transcribe

vars == <<argv, lib, pc, audio_file, transcription, stdout, stderr, exitCode,
          tpc, audio_path, model, result, retval, exc, events, callStart, calls>>

mainVars == <<argv, pc, audio_file, transcription, stdout, stderr, exitCode>>
frameVars == <<tpc, audio_path, model, result, retval, exc, callStart, calls>>

\* ---------------------------------------------------------------- bounds
MaxLen == 2         \* longest text the library returns
MaxArgs == 2        \* most command-line arguments after the script name
MaxCalls == 2       \* most calls of transcribe() by an importing caller

\* ------------------------------------------------------------- constants
Chars == {" ", "a"}
Newline == "\n"
Texts == UNION {[1..n -> Chars] : n \in 0..MaxLen}
Paths == {"", "a.wav"}
ScriptName == "whisper_transcribe.py"
ModelNames == {"tiny", "base", "small", "medium", "large"}
LoadErrors == {"DownloadError"}
InferErrors == {"FileNotFoundError", "RuntimeError"}
Running == -1
NoModel == "None"

\* The usage line, one token of the output stream.
UsageMsg == <<"Usage: python whisper_transcribe.py <audio_file>">>
UsageExitCode == 1
\* CPython: a run that falls off the end of the script exits 0, one ended by
\* an uncaught exception writes the traceback to stderr and exits 1.
NormalExitCode == 0
UncaughtExitCode == 1
Traceback(e) == <<"Traceback (most recent call last):", e>>

\* What model.transcribe can do for a path: return a dict or raise.
Returns(t) == [ok |-> TRUE, text |-> t, language |-> "en", err |-> "none"]
Raises(e) == [ok |-> FALSE, text |-> <<>>, language |-> "", err |-> e]
Outcomes == {Returns(t) : t \in Texts} \cup {Raises(e) : e \in InferErrors}

Event(o, a) == [op |-> o, arg |-> a]

\* print(x): the text followed by a newline, appended to the stream.
PrintTo(stream, text) == stream \o text \o <<Newline>>

\* ------------------------------------------------------------------ Init
FrameInit ==
    /\ tpc = "idle"
    /\ audio_path = ""
    /\ model = NoModel
    /\ result = <<>>
    /\ retval = <<>>
    /\ exc = "none"
    /\ events = <<>>
    /\ callStart = 1
    /\ calls = <<>>

ProcessInit ==
    /\ audio_file = ""
    /\ transcription = <<>>
    /\ stdout = <<>>
    /\ stderr = <<>>
    /\ exitCode = Running

\* The script run as the main program: argv[0] is the script name.
Init ==
    /\ \E n \in 0..MaxArgs : \E args \in [1..n -> Paths] :
          argv = <<ScriptName>> \o args
    /\ lib \in [Paths -> Outcomes]
    /\ pc = "check"
    /\ ProcessInit
    /\ FrameInit

\* --------------------------------------------------- transcribe(), 5-9
ModelName == "base"

\* A call begins: a fresh frame with audio_path bound to the argument.
Enter(p) ==
    /\ tpc = "idle"
    /\ tpc' = "load"
    /\ audio_path' = p
    /\ model' = NoModel
    /\ result' = <<>>
    /\ callStart' = Len(events) + 1
    /\ events' = Append(events, Event("call", p))
    /\ UNCHANGED <<retval, exc, calls>>

CallRecord(evs, isOk, value, e) ==
    [path |-> audio_path, evs |-> SubSeq(evs, callStart, Len(evs)),
     ok |-> isOk, value |-> value, err |-> e]

\* An exception leaves the frame: transcribe has no try statement, so the
\* frame is discarded and the exception reaches the caller.
RaiseOut(evs, e) ==
    /\ tpc' = "raised"
    /\ exc' = e
    /\ model' = NoModel
    /\ result' = <<>>
    /\ calls' = Append(calls, CallRecord(evs, FALSE, <<>>, e))
    /\ UNCHANGED <<audio_path, retval, callStart>>

\* Mutant of LoadModel: the model is kept in a module-level cache, and a call
\* made after an earlier load reuses it instead of loading.
LoadModel_cached ==
    /\ tpc = "load"
    /\ LET cached == \E i \in 1..(callStart - 1) : events[i].op = "load"
           evs == IF cached THEN events
                            ELSE Append(events, Event("load", ModelName))
       IN
       /\ events' = evs
       /\ \/ /\ model' = ModelName
             /\ tpc' = "infer"
             /\ UNCHANGED <<audio_path, result, retval, exc, callStart, calls>>
          \/ /\ ~cached
             /\ \E e \in LoadErrors : RaiseOut(evs, e)
    /\ UNCHANGED <<lib, mainVars>>

\* line 7: model = whisper.load_model("base")
LoadModel ==
    /\ tpc = "load"
    /\ LET evs == Append(events, Event("load", ModelName)) IN
       /\ events' = evs
       /\ \/ /\ model' = ModelName
             /\ tpc' = "infer"
             /\ UNCHANGED <<audio_path, result, retval, exc, callStart, calls>>
          \/ \E e \in LoadErrors : RaiseOut(evs, e)
    /\ UNCHANGED <<lib, mainVars>>

\* Mutant of Infer: a failure of inference is caught and replaced by an
\* empty result.
Infer_swallow ==
    /\ tpc = "infer"
    /\ LET o == lib[audio_path] IN
       /\ events' = Append(events, Event("infer", audio_path))
       /\ result' = <<[text |-> o.text, language |-> o.language]>>
       /\ tpc' = "ret"
       /\ UNCHANGED <<audio_path, model, retval, exc, callStart, calls>>
    /\ UNCHANGED <<lib, mainVars>>

\* line 8: result = model.transcribe(audio_path)
Infer ==
    /\ tpc = "infer"
    /\ LET evs == Append(events, Event("infer", audio_path))
           o == lib[audio_path]
       IN
       /\ events' = evs
       /\ IF o.ok
             THEN /\ result' = <<[text |-> o.text, language |-> o.language]>>
                  /\ tpc' = "ret"
                  /\ UNCHANGED <<audio_path, model, retval, exc, callStart, calls>>
             ELSE RaiseOut(evs, o.err)
    /\ UNCHANGED <<lib, mainVars>>

\* str.strip(): the text without its leading and trailing blanks.
RECURSIVE LStrip(_)
LStrip(t) == IF t # <<>> /\ Head(t) = " " THEN LStrip(Tail(t)) ELSE t
RECURSIVE RStrip(_)
RStrip(t) ==
    IF t # <<>> /\ t[Len(t)] = " " THEN RStrip(SubSeq(t, 1, Len(t) - 1)) ELSE t
Strip(t) == RStrip(LStrip(t))

\* Mutant of TextOf: the text is trimmed before it is returned.
TextOf_strip(r) == Strip(r.text)

\* line 9: the value of result["text"]
TextOf(r) == r.text

\* line 9: return result["text"]
ReturnText ==
    /\ tpc = "ret"
    /\ LET v == TextOf(result[1]) IN
       /\ retval' = v
       /\ calls' = Append(calls, CallRecord(events, TRUE, v, "none"))
    /\ tpc' = "returned"
    /\ model' = NoModel
    /\ result' = <<>>
    /\ UNCHANGED <<audio_path, exc, callStart, events, lib, mainVars>>

\* ------------------------------------------------- main program, 11-17
\* Mutants of ArgMissing: the bound off by one; exactly one argument demanded.
ArgMissing_offByOne == Len(argv) < 1
ArgMissing_exact == Len(argv) # 2

\* line 12: len(sys.argv) < 2
ArgMissing == Len(argv) < 2

\* line 12
MainCheck ==
    /\ pc = "check"
    /\ pc' = IF ArgMissing THEN "usage" ELSE "read"
    /\ UNCHANGED <<argv, lib, audio_file, transcription, stdout, stderr,
                   exitCode, frameVars, events>>

\* line 13
PrintUsage ==
    /\ pc = "usage"
    /\ stdout' = PrintTo(stdout, UsageMsg)
    /\ events' = Append(events, Event("usage", "stdout"))
    /\ pc' = "exit"
    /\ UNCHANGED <<argv, lib, audio_file, transcription, stderr, exitCode,
                   frameVars>>

\* Mutant of SysExit: no exit after the usage line; the run goes on with an
\* empty path.
SysExit_continue ==
    /\ pc = "exit"
    /\ audio_file' = ""
    /\ pc' = "call"
    /\ UNCHANGED <<argv, lib, transcription, stdout, stderr, exitCode,
                   frameVars, events>>

\* line 14: sys.exit(1) raises SystemExit(1), which nothing catches.
SysExit ==
    /\ pc = "exit"
    /\ exitCode' = UsageExitCode
    /\ pc' = "done"
    /\ UNCHANGED <<argv, lib, audio_file, transcription, stdout, stderr,
                   frameVars, events>>

\* line 15: audio_file = sys.argv[1]; an index past the end raises
\* IndexError, which nothing catches.
ReadArg ==
    /\ pc = "read"
    /\ IF Len(argv) >= 2
          THEN /\ audio_file' = argv[2]
               /\ events' = Append(events, Event("read", argv[2]))
               /\ pc' = "call"
               /\ UNCHANGED <<stderr, exitCode>>
          ELSE /\ stderr' = stderr \o Traceback("IndexError")
               /\ exitCode' = UncaughtExitCode
               /\ pc' = "done"
               /\ UNCHANGED <<audio_file, events>>
    /\ UNCHANGED <<argv, lib, transcription, stdout, frameVars>>

\* line 16: the call transcribe(audio_file)
CallTranscribe ==
    /\ pc = "call"
    /\ Enter(audio_file)
    /\ pc' = "wait"
    /\ UNCHANGED <<argv, lib, audio_file, transcription, stdout, stderr,
                   exitCode>>

\* line 16: transcription = <the returned value>
MainReceive ==
    /\ pc = "wait"
    /\ tpc = "returned"
    /\ transcription' = retval
    /\ tpc' = "idle"
    /\ pc' = "print"
    /\ UNCHANGED <<argv, lib, audio_file, stdout, stderr, exitCode,
                   audio_path, model, result, retval, exc, callStart, calls,
                   events>>

\* Mutants of MainUncaught, each a try statement around line 16:
\* except Exception as e: print(e)
MainUncaught_print ==
    /\ pc = "wait"
    /\ tpc = "raised"
    /\ stdout' = PrintTo(stdout, <<exc>>)
    /\ tpc' = "idle"
    /\ pc' = "end"
    /\ UNCHANGED <<argv, lib, audio_file, transcription, stderr, exitCode,
                   audio_path, model, result, retval, exc, callStart, calls,
                   events>>

\* except Exception: <call transcribe again>
MainUncaught_retry ==
    /\ pc = "wait"
    /\ tpc = "raised"
    /\ tpc' = "idle"
    /\ pc' = "call"
    /\ UNCHANGED <<argv, lib, audio_file, transcription, stdout, stderr,
                   exitCode, audio_path, model, result, retval, exc,
                   callStart, calls, events>>

\* except Exception: pass
MainUncaught_swallow ==
    /\ pc = "wait"
    /\ tpc = "raised"
    /\ tpc' = "idle"
    /\ pc' = "end"
    /\ UNCHANGED <<argv, lib, audio_file, transcription, stdout, stderr,
                   exitCode, audio_path, model, result, retval, exc,
                   callStart, calls, events>>

\* line 16: the exception of the call reaches the top level, where nothing
\* catches it: traceback on stderr, exit status 1.
MainUncaught ==
    /\ pc = "wait"
    /\ tpc = "raised"
    /\ stderr' = stderr \o Traceback(exc)
    /\ exitCode' = UncaughtExitCode
    /\ tpc' = "idle"
    /\ pc' = "done"
    /\ UNCHANGED <<argv, lib, audio_file, transcription, stdout,
                   audio_path, model, result, retval, exc, callStart, calls,
                   events>>

\* Mutant of MainPrint: print(transcription.strip())
MainPrint_strip ==
    /\ pc = "print"
    /\ stdout' = PrintTo(stdout, Strip(transcription))
    /\ events' = Append(events, Event("print", "stdout"))
    /\ pc' = "end"
    /\ UNCHANGED <<argv, lib, audio_file, transcription, stderr, exitCode,
                   frameVars>>

\* line 17: print(transcription)
MainPrint ==
    /\ pc = "print"
    /\ stdout' = PrintTo(stdout, transcription)
    /\ events' = Append(events, Event("print", "stdout"))
    /\ pc' = "end"
    /\ UNCHANGED <<argv, lib, audio_file, transcription, stderr, exitCode,
                   frameVars>>

\* end of the script: the interpreter exits 0.
MainEnd ==
    /\ pc = "end"
    /\ exitCode' = NormalExitCode
    /\ pc' = "done"
    /\ UNCHANGED <<argv, lib, audio_file, transcription, stdout, stderr,
                   frameVars, events>>

Next ==
    \/ MainCheck
    \/ PrintUsage
    \/ SysExit
    \/ ReadArg
    \/ CallTranscribe
    \/ LoadModel
    \/ Infer
    \/ ReturnText
    \/ MainReceive
    \/ MainUncaught
    \/ MainPrint
    \/ MainEnd

Spec == Init /\ [][Next]_vars

\* The run is a single synchronous thread: while a step is possible the
\* interpreter takes it (the library calls return or raise).
FairSpec == Spec /\ WF_vars(Next)

TypeOK ==
    /\ pc \in {"check", "usage", "exit", "read", "call", "wait", "print",
               "end", "done", "imported"}
    /\ tpc \in {"idle", "load", "infer", "ret", "returned", "raised"}
    /\ exitCode \in {Running, 0, 1}
    /\ model \in {NoModel} \cup ModelNames
    /\ Len(result) <= 1

\* ------------------------------------------- transcribe() called repeatedly
\* The module imported by another program (__name__ is not "__main__", so
\* lines 12-17 do not run), which calls transcribe() any number of times.
InitCalls ==
    /\ argv = <<ScriptName>>
    /\ lib \in [Paths -> Outcomes]
    /\ pc = "imported"
    /\ ProcessInit
    /\ FrameInit

\* line 5: a caller calls transcribe(p)
CallerCall ==
    /\ pc = "imported"
    /\ Len(calls) < MaxCalls
    /\ \E p \in Paths : Enter(p)
    /\ UNCHANGED <<lib, mainVars>>

\* lines 5-9: the call is over (returned or raised) and the caller goes on.
CallerResume ==
    /\ pc = "imported"
    /\ tpc \in {"returned", "raised"}
    /\ tpc' = "idle"
    /\ exc' = "none"
    /\ UNCHANGED <<audio_path, model, result, retval, callStart, calls,
                   events, lib, mainVars>>

NextCalls ==
    \/ CallerCall
    \/ CallerResume
    \/ LoadModel
    \/ Infer
    \/ ReturnText

SpecCalls == InitCalls /\ [][NextCalls]_vars

\* ================================================================ claims
Done == pc = "done"
Ops == [i \in DOMAIN events |-> events[i].op]
Count(o) == Cardinality({i \in DOMAIN events : events[i].op = o})
HasEvent(o) == \E i \in DOMAIN events : events[i].op = o
IsPrefix(a, b) == Len(a) <= Len(b) /\ SubSeq(b, 1, Len(a)) = a
UsageLine == UsageMsg \o <<Newline>>
\* What standard output holds without the newline print() ends it with.
PrintedText == SubSeq(stdout, 1, Len(stdout) - 1)
\* The one call of the main program ended, by returning / by raising.
CallReturned == Len(calls) = 1 /\ calls[1].ok
CallRaised == Len(calls) = 1 /\ ~calls[1].ok
AllErrors == LoadErrors \cup InferErrors

\* C1: a run of the main program without an argument (len(sys.argv) < 2)
\* writes the usage line to standard output and ends with exit status 1.
C1_UsageExit ==
    (Done /\ Len(argv) < 2) =>
        /\ stdout = UsageLine
        /\ exitCode = 1

C1_Witness == Done /\ Len(argv) < 2 /\ exitCode = 1 /\ stdout # <<>>

\* C2 as stated: whenever model load and inference succeed, the text written
\* to standard output is non-empty, also when result["text"] is empty.
C2_Original ==
    (Done /\ CallReturned) => PrintedText # <<>>

\* C2 amended: when model load and inference succeed, standard output holds
\* the returned text followed by one newline, so the printed text is empty
\* exactly when result["text"] is empty (silent audio prints an empty line).
C2_Amended ==
    (Done /\ CallReturned) =>
        /\ Len(stdout) = Len(lib[argv[2]].text) + 1
        /\ stdout[Len(stdout)] = Newline
        /\ (PrintedText = <<>>) <=> (lib[argv[2]].text = <<>>)

C2_Witness ==
    Done /\ CallReturned /\ lib[argv[2]].text = <<>> /\ stdout = <<Newline>>

\* C3: a failure raised by load_model or model.transcribe leaves transcribe
\* and the main program uncaught: the call is made once and not retried, no
\* value stands in for the failure, and nothing is printed in that run.
C3_Propagates ==
    /\ \A i \in DOMAIN calls :
          ~calls[i].ok =>
              /\ calls[i].err \in AllErrors
              /\ ~HasEvent("print")
              /\ stdout = <<>>
              /\ transcription = <<>>
              /\ Count("call") = 1 /\ Count("load") = 1 /\ Count("infer") <= 1
              /\ pc \in {"wait", "done"}
              /\ pc = "wait" => tpc = "raised" /\ exc = calls[i].err
              /\ Done => exitCode = 1 /\ stderr = Traceback(calls[i].err)
    /\ \A i \in DOMAIN events :
          (events[i].op = "infer" /\ ~lib[events[i].arg].ok) =>
              /\ CallRaised
              /\ calls[1].err = lib[events[i].arg].err
    /\ \A i \in DOMAIN calls :
          (~calls[i].ok /\ calls[i].err \in LoadErrors) => ~HasEvent("infer")

C3_Witness ==
    /\ Done /\ CallRaised /\ calls[1].err \in InferErrors
    /\ stderr = Traceback(calls[1].err)

\* C4 as stated: in a run where model load or inference fails, the error
\* raised appears on standard output.
C4_Original ==
    (Done /\ CallRaised) => \E i \in DOMAIN stdout : stdout[i] = calls[1].err

\* C4 amended: in a run where model load or inference fails, standard output
\* stays empty and the error raised appears on standard error (the
\* interpreter's traceback).
C4_Amended ==
    (Done /\ CallRaised) =>
        /\ stdout = <<>>
        /\ \E i \in DOMAIN stderr : stderr[i] = calls[1].err

C4_Witness == Done /\ CallRaised /\ stderr # <<>> /\ stdout = <<>>

\* C5: in a run with an argument the steps happen in the order read argv[1],
\* (call,) load the model, infer on that path, print; each at most once, and
\* the print only after inference has returned successfully.
C5_Order ==
    Len(argv) >= 2 =>
        /\ IsPrefix(Ops, <<"read", "call", "load", "infer", "print">>)
        /\ \A i \in DOMAIN events :
              /\ events[i].op \in {"read", "call", "infer"} =>
                    events[i].arg = argv[2]
              /\ events[i].op = "load" => events[i].arg = "base"
        /\ HasEvent("print") =>
              /\ CallReturned
              /\ lib[argv[2]].ok
              /\ pc \in {"end", "done"}

C5_Witness ==
    Done /\ Len(argv) >= 2 /\ Ops = <<"read", "call", "load", "infer", "print">>

\* C6: transcribe(audio_path) returns exactly the "text" field of the result
\* of inference on that same path, and the main program prints exactly that
\* value followed by a newline.
C6_ExactText ==
    /\ \A i \in DOMAIN calls :
          calls[i].ok =>
              /\ calls[i].value = lib[calls[i].path].text
              /\ calls[i].path = argv[2]
              /\ \E j \in DOMAIN calls[i].evs :
                    calls[i].evs[j] = Event("infer", calls[i].path)
    /\ tpc = "returned" => retval = lib[argv[2]].text
    /\ pc \in {"print", "end", "done"} /\ CallReturned =>
          transcription = lib[argv[2]].text
    /\ pc \in {"end", "done"} /\ CallReturned =>
          stdout = lib[argv[2]].text \o <<Newline>>

C6_Witness ==
    /\ Done /\ CallReturned
    /\ lib[argv[2]].text = <<" ", "a">>
    /\ stdout = <<" ", "a", Newline>>

\* C7: with at least one argument, whatever it is and however many follow,
\* no usage line is printed, the further arguments are ignored and
\* transcribe is called exactly once, with the first argument.
C7_FirstArgOnly ==
    Len(argv) >= 2 =>
        /\ ~HasEvent("usage")
        /\ \A i \in DOMAIN stdout : stdout[i] # UsageMsg[1]
        /\ Count("call") <= 1
        /\ pc \in {"wait", "print", "end", "done"} => Count("call") = 1
        /\ \A i \in DOMAIN events :
              events[i].op \in {"read", "call", "infer"} =>
                  events[i].arg = argv[2]
        /\ \A i \in DOMAIN calls : calls[i].path = argv[2]
        /\ Done =>
              /\ Len(calls) = 1
              /\ stdout = IF calls[1].ok
                             THEN lib[argv[2]].text \o <<Newline>>
                             ELSE <<>>

C7_Witness ==
    /\ Done /\ Len(argv) = 3 /\ argv[2] = "" /\ argv[3] # ""
    /\ Count("call") = 1 /\ calls[1].path = ""

\* C8: in a run without an argument transcribe is never called, the model
\* never loaded and inference never invoked.
C8_NoModelWork ==
    Len(argv) < 2 =>
        /\ ~HasEvent("call") /\ ~HasEvent("load") /\ ~HasEvent("infer")
        /\ tpc = "idle"
        /\ model = NoModel
        /\ calls = <<>>

C8_Witness == Done /\ Len(argv) < 2 /\ HasEvent("usage") /\ calls = <<>>

\* The events of a finished call with operation o.
CallEvents(c, o) == {j \in DOMAIN c.evs : c.evs[j].op = o}

\* C9 as stated: after any sequence of calls, each call has loaded the
\* "base" model exactly once and invoked inference exactly once.
C9_Original ==
    \A i \in DOMAIN calls :
        /\ Cardinality(CallEvents(calls[i], "load")) = 1
        /\ \A j \in CallEvents(calls[i], "load") : calls[i].evs[j].arg = "base"
        /\ Cardinality(CallEvents(calls[i], "infer")) = 1

\* C9 amended: transcribe keeps no state between calls: each call invokes
\* load_model exactly once, always for "base" and never reusing an earlier
\* call's model, and invokes inference on its own path exactly once unless
\* load_model raised (then not at all); what a call returns or raises after
\* loading depends only on its path and the library, not on earlier calls.
C9_Amended ==
    /\ \A i \in DOMAIN calls :
          LET c == calls[i]
              loaded == c.ok \/ c.err \in InferErrors
          IN
          /\ Cardinality(CallEvents(c, "load")) = 1
          /\ \A j \in CallEvents(c, "load") : c.evs[j].arg = "base"
          /\ Cardinality(CallEvents(c, "infer")) = (IF loaded THEN 1 ELSE 0)
          /\ \A j \in CallEvents(c, "infer") : c.evs[j].arg = c.path
          /\ loaded =>
                /\ c.ok = lib[c.path].ok
                /\ c.value = lib[c.path].text
                /\ c.err = lib[c.path].err
    /\ tpc \in {"idle", "returned", "raised"} =>
          /\ model = NoModel
          /\ result = <<>>

C9_Witness ==
    /\ Len(calls) = 2
    /\ calls[1].path = calls[2].path
    /\ ~calls[1].ok /\ calls[1].err \in LoadErrors
    /\ calls[2].ok /\ calls[2].value = lib[calls[2].path].text
    /\ Cardinality(CallEvents(calls[2], "load")) = 1

\* The three ways a run ends.
EndedUsage ==
    /\ Len(argv) < 2
    /\ stdout = UsageLine
    /\ stderr = <<>>
    /\ exitCode = 1
EndedPrinted ==
    /\ Len(argv) >= 2
    /\ CallReturned
    /\ stdout = calls[1].value \o <<Newline>>
    /\ stderr = <<>>
    /\ exitCode = 0
EndedUncaught ==
    /\ Len(argv) >= 2
    /\ CallRaised
    /\ stdout = <<>>
    /\ stderr = Traceback(calls[1].err)
    /\ exitCode \notin {0, Running}
Ways == <<EndedUsage, EndedPrinted, EndedUncaught>>

\* C10: every run ends, and ends in exactly one of: usage line and exit
\* status 1; transcription printed and exit status 0; uncaught failure and
\* a non-zero exit status.  The exit status is 0 iff the transcription was
\* printed.
C10_Terminates ==
    /\ <>Done
    /\ [](Done =>
            /\ Cardinality({k \in 1..3 : Ways[k]}) = 1
            /\ (exitCode = 0) <=> HasEvent("print"))

C10_Witness == Done /\ EndedPrinted /\ HasEvent("print")

====
